---- MODULE Spec2Model ----
(***************************************************************************)
(* JsonMcpTool: dot-notation path resolution (pathresolver), the per-file  *)
(* JSON handler (jsonhandler) and the document operations (operations).    *)
(*                                                                         *)
(* Strings are sequences of one-character strings, so that SplitPath and   *)
(* strings.Join are computed character by character.  A JSON value is a    *)
(* record [t, v]; an in-memory document is a heap of Go maps, because Go   *)
(* maps are references and RenameKey stores a reference it read from the   *)
(* document back into the document.                                        *)
(***************************************************************************)
EXTENDS Integers, Sequences, FiniteSets, TLC

VARIABLES
    disk,      \* content of the file at filePath (a JSON value, Missing or Malformed)
    disk0,     \* content of the file before the call
    pc,        \* "idle" before the call, "done" after it returned
    call,      \* the operation called and its arguments
    ret,       \* what the call returned: error code, value, number of Load and Save calls
    cpc,       \* concurrent calls: position of each caller
    cdata,     \* concurrent calls: the document each caller loaded
    mutex,     \* concurrent calls: holder of each handler's mutex (0 = free)
    hpc,       \* one handler: position in the LoadJSON or SaveJSON call in progress
    handler,   \* one handler: the fields cachedData and fileMTime
    fs,        \* one handler: modification time of the file, temporary file, clock
    frame,     \* one handler: arguments, locals and result of the current or last call
    hist       \* one handler: what happened before, for the properties

vars == <<disk, disk0, pc, call, ret, cpc, cdata, mutex, hpc, handler, fs, frame, hist>>

(***************************************************************************)
(* Bounds                                                                  *)
(***************************************************************************)
MaxPathLen == 3        \* segments in a key path given to an operation
MaxScalar == 2         \* distinct numbers stored in the initial documents
MaxClock == 3          \* writes to the directory, each with a modification time of its own

(***************************************************************************)
(* Strings                                                                 *)
(***************************************************************************)
Dot == "."
EmptyString == << >>
Segs == {<<"a">>, <<"b">>}

RECURSIVE SplitFrom(_, _, _)
\* strings.Split(s, "."), scanning s from position i with the segment cur open
SplitFrom(s, i, cur) ==
    IF i > Len(s) THEN <<cur>>
    ELSE IF s[i] = Dot THEN <<cur>> \o SplitFrom(s, i + 1, << >>)
    ELSE SplitFrom(s, i + 1, Append(cur, s[i]))

SplitPath(keyPath) ==
    IF keyPath = EmptyString THEN << >> ELSE SplitFrom(keyPath, 1, << >>)

RECURSIVE Join(_)
\* strings.Join(keys, ".")
Join(keys) ==
    IF Len(keys) = 0 THEN EmptyString
    ELSE IF Len(keys) = 1 THEN keys[1]
    ELSE keys[1] \o <<Dot>> \o Join(Tail(keys))

ValidatePath(keyPath) == IF keyPath = EmptyString THEN "INVALID_PATH" ELSE ""

(***************************************************************************)
(* JSON values                                                             *)
(***************************************************************************)
Num(n) == [t |-> "num", v |-> n]
Str(s) == [t |-> "str", v |-> s]
Bool(b) == [t |-> "bool", v |-> b]
Null == [t |-> "null", v |-> 0]
Arr(s) == [t |-> "arr", v |-> s]
Obj(f) == [t |-> "obj", v |-> f]
Nil == [t |-> "nil", v |-> 0]            \* Go nil interface value
Ref(id) == [t |-> "ref", v |-> id]       \* reference to a Go map of the heap
EmptyMap == [k \in {} |-> Nil]
Missing == [t |-> "missing", v |-> 0]    \* no file at filePath
Malformed == [t |-> "malformed", v |-> 0]  \* file content is not JSON text
Empty == [t |-> "empty", v |-> 0]        \* file of size zero

kA == <<"a">>
kB == <<"b">>
kAB == <<"a", ".", "b">>

ObjsOver(K, V) == { Obj(f) : f \in UNION { [S -> V] : S \in SUBSET K } }

Scalars == { Num(n) : n \in 1..MaxScalar }
\* documents: root keys "a" and "a.b", below them objects nested under the key "b"
Level2Vals == Scalars \cup ObjsOver({kB}, Scalars)
Level1Vals == Scalars \cup ObjsOver({kB}, Level2Vals)
ObjectDocs == ObjsOver({kA, kAB}, Level1Vals)
\* documents holding arrays, at the root keys and one level below
ArrayDocs == ObjsOver({kA, kAB}, {Arr(<<Num(1)>>), Obj([k \in {kB} |-> Arr(<< >>)])})
\* no file, text that is not JSON, and the JSON roots that are not objects
OtherFiles == {Missing, Malformed, Empty, Null, Arr(<< >>), Num(1), Str("x"), Bool(TRUE)}

\* values handed to AddKey and UpdateKey
ArgVals == {Num(7), Str("x"), Bool(TRUE), Null, Arr(<<Num(7)>>),
            Obj(EmptyMap), Obj([k \in {kB} |-> Obj([j \in {kA} |-> Num(7)])])}

SegSeqs == UNION { [1..n -> Segs] : n \in 1..MaxPathLen }
Paths == { Join(ks) : ks \in SegSeqs } \cup {EmptyString}

(***************************************************************************)
(* In-memory documents.  json.Unmarshal builds one Go map per JSON object; *)
(* h.o maps the identity of each map to its entries, an entry holding a    *)
(* scalar, an array or a reference to another map.  The identity of a map  *)
(* is the location (sequence of keys) at which it was created.  h.nil says *)
(* that the root is a nil map, h.panic that the program has panicked.      *)
(***************************************************************************)
Root == << >>
ArgBase == << <<"$">> >>     \* identities of the maps of a value passed by the caller
\* outcome of encoding a map that contains itself: the README asks for Go 1.23 or
\* later, whose encoding/json reports a cycle as an error
Cycle == [t |-> "cycle", v |-> 0]

MapPut(m, k, c) == [x \in DOMAIN m \cup {k} |-> IF x = k THEN c ELSE m[x]]
MapDel(m, k) == [x \in DOMAIN m \ {k} |-> m[x]]

RECURSIVE ObjLocs(_)
ObjLocs(val) ==
    IF val.t # "obj" THEN {}
    ELSE {<< >>} \cup UNION { { <<k>> \o loc : loc \in ObjLocs(val.v[k]) } : k \in DOMAIN val.v }

RECURSIVE ValAt(_, _)
ValAt(val, loc) == IF loc = << >> THEN val ELSE ValAt(val.v[Head(loc)], Tail(loc))

\* the Go maps of the JSON value val, with identities starting at base
MapsOf(val, base) ==
    [id \in { base \o loc : loc \in ObjLocs(val) } |->
        LET node == ValAt(val, SubSeq(id, Len(base) + 1, Len(id)))
        IN  [k \in DOMAIN node.v |->
                IF node.v[k].t = "obj" THEN Ref(Append(id, k)) ELSE node.v[k]]]

\* the Go value for the JSON value val as an entry of a map
CellOf(val, base) == IF val.t = "obj" THEN Ref(base) ELSE val

RECURSIVE Enc(_, _, _)
\* encoding/json on the value cell; a map met again on its own path is a cycle
Enc(h, cell, seen) ==
    IF cell.t # "ref" THEN cell
    ELSE IF cell.v \in seen THEN Cycle
    ELSE LET m == h.o[cell.v]
             kids == [k \in DOMAIN m |-> Enc(h, m[k], seen \cup {cell.v})]
         IN  IF \E k \in DOMAIN m : kids[k] = Cycle THEN Cycle ELSE Obj(kids)

Export(h, cell) == Enc(h, cell, {})
Encode(h) == IF h.nil THEN Null ELSE Enc(h, Ref(Root), {})

RECURSIVE NewId(_, _)
NewId(h, cand) == IF cand \in DOMAIN h.o THEN NewId(h, Append(cand, <<"#">>)) ELSE cand

\* m[k] = c on the map id; assignment to an entry of a nil map panics
HeapPut(h, id, k, c) ==
    IF id = Root /\ h.nil THEN [h EXCEPT !.panic = TRUE]
    ELSE [h EXCEPT !.o[id] = MapPut(@, k, c)]

\* delete(m, k) on the map id
HeapDel(h, id, k) == [h EXCEPT !.o[id] = MapDel(@, k)]

(***************************************************************************)
(* pathresolver                                                            *)
(***************************************************************************)
RECURSIVE Walk(_, _, _, _)
\* the loop of NavigateToKey over keys[i..]
Walk(h, current, keys, i) ==
    IF i > Len(keys) THEN [err |-> "", val |-> current, at |-> EmptyString]
    ELSE IF current.t # "ref"
         THEN [err |-> "PATH_ERROR", val |-> Nil, at |-> Join(SubSeq(keys, 1, i - 1))]
    ELSE IF keys[i] \notin DOMAIN h.o[current.v]
         THEN [err |-> "KEY_NOT_FOUND", val |-> Nil, at |-> Join(keys)]
    ELSE Walk(h, h.o[current.v][keys[i]], keys, i + 1)

\* NavigateToKey without the whole-path lookup in the root object
NavigateToKeySplitOnly(h, keyPath) ==
    IF ValidatePath(keyPath) # "" THEN [err |-> "INVALID_PATH", val |-> Nil, at |-> EmptyString]
    ELSE Walk(h, Ref(Root), SplitPath(keyPath), 1)

NavigateToKey(h, keyPath) ==
    IF ValidatePath(keyPath) # "" THEN [err |-> "INVALID_PATH", val |-> Nil, at |-> EmptyString]
    ELSE IF keyPath \in DOMAIN h.o[Root]
         THEN [err |-> "", val |-> h.o[Root][keyPath], at |-> EmptyString]
    ELSE Walk(h, Ref(Root), SplitPath(keyPath), 1)

NavigateToParent(h, keyPath) ==
    IF ValidatePath(keyPath) # "" THEN [err |-> "INVALID_PATH", parent |-> Root, key |-> EmptyString]
    ELSE LET keys == SplitPath(keyPath)
             n == Len(keys)
         IN  IF n = 1 THEN [err |-> "", parent |-> Root, key |-> keys[1]]
             ELSE LET parentPath == Join(SubSeq(keys, 1, n - 1))
                      parent == NavigateToKey(h, parentPath)
                  IN  IF parent.err # "" THEN [err |-> parent.err, parent |-> Root, key |-> EmptyString]
                      ELSE IF parent.val.t # "ref"
                           THEN [err |-> "PATH_ERROR", parent |-> Root, key |-> EmptyString]
                      ELSE [err |-> "", parent |-> parent.val.v, key |-> keys[n]]

\* KeyExists looking only for the whole path as a key of the root object
KeyExistsLiteralOnly(h, keyPath) ==
    IF ValidatePath(keyPath) # "" THEN FALSE
    ELSE keyPath \in DOMAIN h.o[Root]

KeyExists(h, keyPath) ==
    IF ValidatePath(keyPath) # "" THEN FALSE
    ELSE IF keyPath \in DOMAIN h.o[Root] THEN TRUE
    ELSE NavigateToKey(h, keyPath).err = ""

RECURSIVE CreateFromOverwriting(_, _, _, _)
\* the loop of CreateNestedPath replacing a value that is not an object by a new object
CreateFromOverwriting(h, current, keys, i) ==
    IF i > Len(keys) - 1 THEN [err |-> "", h |-> h, parent |-> current]
    ELSE IF keys[i] \in DOMAIN h.o[current] /\ h.o[current][keys[i]].t = "ref"
         THEN CreateFromOverwriting(h, h.o[current][keys[i]].v, keys, i + 1)
    ELSE LET newMap == NewId(h, Append(current, keys[i]))
             h1 == HeapPut(h, current, keys[i], Ref(newMap))
         IN  IF h1.panic THEN [err |-> "", h |-> h1, parent |-> current]
             ELSE CreateFromOverwriting([h1 EXCEPT !.o = newMap :> EmptyMap @@ @], newMap, keys, i + 1)

RECURSIVE CreateFromReplacing(_, _, _, _)
\* the loop of CreateNestedPath making a new object for every intermediate key
CreateFromReplacing(h, current, keys, i) ==
    IF i > Len(keys) - 1 THEN [err |-> "", h |-> h, parent |-> current]
    ELSE IF keys[i] \in DOMAIN h.o[current] /\ h.o[current][keys[i]].t # "ref"
         THEN [err |-> "PATH_CONFLICT", h |-> h, parent |-> current]
    ELSE LET newMap == NewId(h, Append(current, keys[i]))
             h1 == HeapPut(h, current, keys[i], Ref(newMap))
         IN  IF h1.panic THEN [err |-> "", h |-> h1, parent |-> current]
             ELSE CreateFromReplacing([h1 EXCEPT !.o = newMap :> EmptyMap @@ @], newMap, keys, i + 1)

RECURSIVE CreateFromClearing(_, _, _, _)
\* the loop of CreateNestedPath deleting the value that is not an object before it
\* reports the conflict
CreateFromClearing(h, current, keys, i) ==
    IF i > Len(keys) - 1 THEN [err |-> "", h |-> h, parent |-> current]
    ELSE IF keys[i] \in DOMAIN h.o[current] THEN
        IF h.o[current][keys[i]].t = "ref"
        THEN CreateFromClearing(h, h.o[current][keys[i]].v, keys, i + 1)
        ELSE [err |-> "PATH_CONFLICT", h |-> HeapDel(h, current, keys[i]), parent |-> current]
    ELSE LET newMap == NewId(h, Append(current, keys[i]))
             h1 == HeapPut(h, current, keys[i], Ref(newMap))
         IN  IF h1.panic THEN [err |-> "", h |-> h1, parent |-> current]
             ELSE CreateFromClearing([h1 EXCEPT !.o = newMap :> EmptyMap @@ @], newMap, keys, i + 1)

RECURSIVE CreateFrom(_, _, _, _)
\* the loop of CreateNestedPath over keys[i..Len(keys)-1]
CreateFrom(h, current, keys, i) ==
    IF i > Len(keys) - 1 THEN [err |-> "", h |-> h, parent |-> current]
    ELSE IF keys[i] \in DOMAIN h.o[current] THEN
        IF h.o[current][keys[i]].t = "ref"
        THEN CreateFrom(h, h.o[current][keys[i]].v, keys, i + 1)
        ELSE [err |-> "PATH_CONFLICT", h |-> h, parent |-> current]
    ELSE LET newMap == NewId(h, Append(current, keys[i]))
             h1 == HeapPut(h, current, keys[i], Ref(newMap))
         IN  IF h1.panic THEN [err |-> "", h |-> h1, parent |-> current]
             ELSE CreateFrom([h1 EXCEPT !.o = newMap :> EmptyMap @@ @], newMap, keys, i + 1)

CreateNestedPath(h, keyPath) ==
    IF ValidatePath(keyPath) # "" THEN [err |-> "INVALID_PATH", h |-> h, parent |-> Root]
    ELSE LET keys == SplitPath(keyPath)
         IN  IF Len(keys) = 1 THEN [err |-> "", h |-> h, parent |-> Root]
             ELSE CreateFrom(h, Root, keys, 1)

\* GetAllKeysAtPath listing the root object whatever the path
GetAllKeysAtRoot(h, hasPath, keyPath) ==
    LET target == IF hasPath THEN NavigateToKey(h, keyPath)
                  ELSE [err |-> "", val |-> Ref(Root), at |-> EmptyString]
    IN  IF target.err # "" THEN [err |-> target.err, keys |-> {}]
        ELSE IF target.val.t # "ref" THEN [err |-> "NOT_OBJECT", keys |-> {}]
        ELSE [err |-> "", keys |-> DOMAIN h.o[Root]]

GetAllKeysAtPath(h, hasPath, keyPath) ==
    LET target == IF hasPath THEN NavigateToKey(h, keyPath) ELSE [err |-> "", val |-> Ref(Root), at |-> EmptyString]
    IN  IF target.err # "" THEN [err |-> target.err, keys |-> {}]
        ELSE IF target.val.t # "ref" THEN [err |-> "NOT_OBJECT", keys |-> {}]
        ELSE [err |-> "", keys |-> DOMAIN h.o[target.val.v]]

\* RemoveKeyAtPath that also deletes the parent object when the removal empties it
RemoveKeyAtPathPruning(h, keyPath) ==
    IF ValidatePath(keyPath) # "" THEN [err |-> "INVALID_PATH", h |-> h, val |-> Nil]
    ELSE IF keyPath \in DOMAIN h.o[Root]
         THEN [err |-> "", h |-> HeapDel(h, Root, keyPath), val |-> h.o[Root][keyPath]]
    ELSE LET p == NavigateToParent(h, keyPath)
         IN  IF p.err # "" THEN [err |-> p.err, h |-> h, val |-> Nil]
             ELSE IF p.key \notin DOMAIN h.o[p.parent]
                  THEN [err |-> "KEY_NOT_FOUND", h |-> h, val |-> Nil]
             ELSE LET h1 == HeapDel(h, p.parent, p.key)
                      pruned == [h1 EXCEPT !.o = [id \in DOMAIN h1.o |->
                                   [k \in { x \in DOMAIN h1.o[id] : h1.o[id][x] # Ref(p.parent) }
                                       |-> h1.o[id][k]]]]
                  IN  [err |-> "", val |-> h.o[p.parent][p.key],
                       h |-> IF p.parent # Root /\ DOMAIN h1.o[p.parent] = {} THEN pruned ELSE h1]

RemoveKeyAtPath(h, keyPath) ==
    IF ValidatePath(keyPath) # "" THEN [err |-> "INVALID_PATH", h |-> h, val |-> Nil]
    ELSE IF keyPath \in DOMAIN h.o[Root]
         THEN [err |-> "", h |-> HeapDel(h, Root, keyPath), val |-> h.o[Root][keyPath]]
    ELSE LET p == NavigateToParent(h, keyPath)
         IN  IF p.err # "" THEN [err |-> p.err, h |-> h, val |-> Nil]
             ELSE IF p.key \notin DOMAIN h.o[p.parent]
                  THEN [err |-> "KEY_NOT_FOUND", h |-> h, val |-> Nil]
             ELSE [err |-> "", h |-> HeapDel(h, p.parent, p.key), val |-> h.o[p.parent][p.key]]

\* SetValueAtPath storing under the first segment instead of the last
SetValueAtPathFirstKey(h, keyPath, value, createPath) ==
    IF createPath THEN
        LET c == CreateNestedPath(h, keyPath)
            keys == SplitPath(keyPath)
        IN  IF c.err # "" \/ c.h.panic THEN [err |-> c.err, h |-> c.h]
            ELSE [err |-> "", h |-> HeapPut(c.h, c.parent, keys[1], value)]
    ELSE
        LET p == NavigateToParent(h, keyPath)
        IN  IF p.err # "" THEN [err |-> p.err, h |-> h]
            ELSE [err |-> "", h |-> HeapPut(h, p.parent, p.key, value)]

SetValueAtPath(h, keyPath, value, createPath) ==
    IF createPath THEN
        LET c == CreateNestedPath(h, keyPath)
            keys == SplitPath(keyPath)
        IN  IF c.err # "" \/ c.h.panic THEN [err |-> c.err, h |-> c.h]
            ELSE [err |-> "", h |-> HeapPut(c.h, c.parent, keys[Len(keys)], value)]
    ELSE
        LET p == NavigateToParent(h, keyPath)
        IN  IF p.err # "" THEN [err |-> p.err, h |-> h]
            ELSE [err |-> "", h |-> HeapPut(h, p.parent, p.key, value)]

(***************************************************************************)
(* jsonhandler.  Every operation builds its own handler with               *)
(* NewJSONHandler, so cachedData is nil when it calls LoadJSON and the     *)
(* file is always read.                                                    *)
(***************************************************************************)
NoHeap == [nil |-> TRUE, panic |-> FALSE, o |-> Root :> EmptyMap]

LoadJSON(file) ==
    IF file = Missing THEN [err |-> "FILE_NOT_FOUND", h |-> NoHeap]
    ELSE IF file = Malformed THEN [err |-> "INVALID_JSON", h |-> NoHeap]
    ELSE IF file.t = "obj"
         THEN [err |-> "", h |-> [nil |-> FALSE, panic |-> FALSE, o |-> MapsOf(file, Root)]]
    ELSE IF file.t = "null" THEN [err |-> "", h |-> NoHeap]
    ELSE [err |-> "INVALID_JSON", h |-> NoHeap]

\* the step of SaveJSON at which the file system fails
SaveFailures == {"none", "create", "encode", "close", "rename"}

\* SaveJSON writing the target file directly, without temporary file and rename
SaveJSONInPlace(file, h, fail) ==
    IF fail = "create" THEN [err |-> "FILE_WRITE_ERROR", disk |-> file]
    ELSE IF fail = "encode" \/ Encode(h) = Cycle THEN [err |-> "FILE_WRITE_ERROR", disk |-> Malformed]
    ELSE IF fail = "close" THEN [err |-> "FILE_WRITE_ERROR", disk |-> Encode(h)]
    ELSE [err |-> "", disk |-> Encode(h)]

SaveJSON(file, h, fail) ==
    IF fail = "create" THEN [err |-> "FILE_WRITE_ERROR", disk |-> file]
    ELSE IF fail = "encode" \/ Encode(h) = Cycle THEN [err |-> "FILE_WRITE_ERROR", disk |-> file]
    ELSE IF fail = "close" THEN [err |-> "FILE_WRITE_ERROR", disk |-> file]
    ELSE IF fail = "rename" THEN [err |-> "FILE_WRITE_ERROR", disk |-> file]
    ELSE [err |-> "", disk |-> Encode(h)]

(***************************************************************************)
(* operations.  Each returns the error code, the returned value, the file  *)
(* content it leaves and the number of LoadJSON and SaveJSON calls made;   *)
(* "at" is the path that the error message of GetKey names, "result" the   *)
(* ValidationResult of ValidateJSON.                                       *)
(***************************************************************************)
\* a ValidationResult: Valid, ErrorType, Error # nil, Performance # nil; panic says
\* that the call did not return
NoResult == [panic |-> FALSE, valid |-> FALSE, errorType |-> "", hasError |-> FALSE, hasPerf |-> FALSE]
Res(d, e, v, l, s) ==
    [disk |-> d, err |-> e, val |-> v, keys |-> {}, exists |-> FALSE, loads |-> l, saves |-> s,
     at |-> EmptyString, result |-> NoResult]

\* GetKey reporting every navigation failure as KEY_NOT_FOUND against the whole path
GetKeyAllNotFound(file, keyPath) ==
    LET ld == LoadJSON(file) IN
    IF ld.err # "" THEN Res(file, ld.err, Nil, 1, 0)
    ELSE LET n == NavigateToKey(ld.h, keyPath) IN
         IF n.err = "INVALID_PATH" THEN Res(file, "INVALID_PATH", Nil, 1, 0)
         ELSE IF n.err # "" THEN [Res(file, "KEY_NOT_FOUND", Nil, 1, 0) EXCEPT !.at = keyPath]
         ELSE Res(file, "", Export(ld.h, n.val), 1, 0)

GetKey(file, keyPath) ==
    LET ld == LoadJSON(file) IN
    IF ld.err # "" THEN Res(file, ld.err, Nil, 1, 0)
    ELSE LET n == NavigateToKey(ld.h, keyPath) IN
         IF n.err = "KEY_NOT_FOUND" THEN [Res(file, "KEY_NOT_FOUND", Nil, 1, 0) EXCEPT !.at = keyPath]
         ELSE IF n.err = "INVALID_PATH" THEN Res(file, "INVALID_PATH", Nil, 1, 0)
         ELSE IF n.err # "" THEN [Res(file, "PATH_ERROR", Nil, 1, 0) EXCEPT !.at = n.at]
         ELSE Res(file, "", Export(ld.h, n.val), 1, 0)

\* AddKey without the check that the key does not exist yet
AddKeyNoCheck(file, keyPath, value, fail) ==
    LET ld == LoadJSON(file) IN
    IF ld.err # "" THEN Res(file, ld.err, Nil, 1, 0)
    ELSE LET data == [ld.h EXCEPT !.o = MapsOf(value, ArgBase) @@ @]
             s == SetValueAtPath(data, keyPath, CellOf(value, ArgBase), TRUE)
         IN  IF s.h.panic THEN Res(file, "PANIC", Nil, 1, 0)
             ELSE IF s.err = "PATH_CONFLICT" THEN Res(file, "PATH_CONFLICT", Nil, 1, 0)
             ELSE IF s.err # "" THEN Res(file, "ADD_KEY_ERROR", Nil, 1, 0)
             ELSE LET sv == SaveJSON(file, s.h, fail) IN
                  IF sv.err # "" THEN Res(sv.disk, "ADD_KEY_ERROR", Nil, 1, 1)
                  ELSE Res(sv.disk, "", Nil, 1, 1)

AddKey(file, keyPath, value, fail) ==
    LET ld == LoadJSON(file) IN
    IF ld.err # "" THEN Res(file, ld.err, Nil, 1, 0)
    ELSE IF KeyExists(ld.h, keyPath) THEN Res(file, "KEY_EXISTS", Nil, 1, 0)
    ELSE LET data == [ld.h EXCEPT !.o = MapsOf(value, ArgBase) @@ @]
             s == SetValueAtPath(data, keyPath, CellOf(value, ArgBase), TRUE)
         IN  IF s.h.panic THEN Res(file, "PANIC", Nil, 1, 0)
             ELSE IF s.err = "PATH_CONFLICT" THEN Res(file, "PATH_CONFLICT", Nil, 1, 0)
             ELSE IF s.err # "" THEN Res(file, "ADD_KEY_ERROR", Nil, 1, 0)
             ELSE LET sv == SaveJSON(file, s.h, fail) IN
                  IF sv.err # "" THEN Res(sv.disk, "ADD_KEY_ERROR", Nil, 1, 1)
                  ELSE Res(sv.disk, "", Nil, 1, 1)

UpdateKey(file, keyPath, value, fail) ==
    LET ld == LoadJSON(file) IN
    IF ld.err # "" THEN Res(file, ld.err, Nil, 1, 0)
    ELSE IF ValidatePath(keyPath) # "" THEN Res(file, "INVALID_PATH", Nil, 1, 0)
    ELSE IF ~KeyExists(ld.h, keyPath) THEN Res(file, "KEY_NOT_FOUND", Nil, 1, 0)
    ELSE LET data == [ld.h EXCEPT !.o = MapsOf(value, ArgBase) @@ @]
             s == SetValueAtPath(data, keyPath, CellOf(value, ArgBase), FALSE)
         IN  IF s.h.panic THEN Res(file, "PANIC", Nil, 1, 0)
             ELSE IF s.err = "KEY_NOT_FOUND" THEN Res(file, "KEY_NOT_FOUND", Nil, 1, 0)
             ELSE IF s.err # "" THEN Res(file, "UPDATE_KEY_ERROR", Nil, 1, 0)
             ELSE LET sv == SaveJSON(file, s.h, fail) IN
                  IF sv.err # "" THEN Res(sv.disk, "UPDATE_KEY_ERROR", Nil, 1, 1)
                  ELSE Res(sv.disk, "", Nil, 1, 1)

\* RenameKey loading the file before it compares the two paths
RenameKeyLoadFirst(file, oldPath, newPath, fail) ==
    LET ld == LoadJSON(file) IN
    IF ld.err # "" THEN Res(file, ld.err, Nil, 1, 0)
    ELSE IF oldPath = newPath THEN Res(file, "SAME_KEY", Nil, 1, 0)
    ELSE Res(file, "RENAME_KEY_ERROR", Nil, 1, 0)

RenameKey(file, oldPath, newPath, fail) ==
    IF oldPath = newPath THEN Res(file, "SAME_KEY", Nil, 0, 0)
    ELSE IF ValidatePath(oldPath) # "" \/ ValidatePath(newPath) # ""
         THEN Res(file, "INVALID_PATH", Nil, 0, 0)
    ELSE LET ld == LoadJSON(file) IN
    IF ld.err # "" THEN Res(file, ld.err, Nil, 1, 0)
    ELSE IF ~KeyExists(ld.h, oldPath) THEN Res(file, "KEY_NOT_FOUND", Nil, 1, 0)
    ELSE IF KeyExists(ld.h, newPath) THEN Res(file, "KEY_EXISTS", Nil, 1, 0)
    ELSE LET n == NavigateToKey(ld.h, oldPath) IN
         IF n.err # "" THEN Res(file, "RENAME_KEY_ERROR", Nil, 1, 0)
         ELSE LET s == SetValueAtPath(ld.h, newPath, n.val, TRUE) IN
              IF s.h.panic THEN Res(file, "PANIC", Nil, 1, 0)
              ELSE IF s.err # "" THEN Res(file, "RENAME_KEY_ERROR", Nil, 1, 0)
              ELSE LET r == RemoveKeyAtPath(s.h, oldPath) IN
                   IF r.err # "" THEN Res(file, "RENAME_KEY_ERROR", Nil, 1, 0)
                   ELSE LET sv == SaveJSON(file, r.h, fail) IN
                        IF sv.err # "" THEN Res(sv.disk, "RENAME_KEY_ERROR", Nil, 1, 1)
                        ELSE Res(sv.disk, "", Nil, 1, 1)

RemoveKey(file, keyPath, fail) ==
    LET ld == LoadJSON(file) IN
    IF ld.err # "" THEN Res(file, ld.err, Nil, 1, 0)
    ELSE IF ValidatePath(keyPath) # "" THEN Res(file, "INVALID_PATH", Nil, 1, 0)
    ELSE IF ~KeyExists(ld.h, keyPath) THEN Res(file, "KEY_NOT_FOUND", Nil, 1, 0)
    ELSE LET r == RemoveKeyAtPath(ld.h, keyPath) IN
         IF r.err # "" THEN Res(file, "REMOVE_KEY_ERROR", Nil, 1, 0)
         ELSE LET sv == SaveJSON(file, r.h, fail) IN
              IF sv.err # "" THEN Res(sv.disk, "REMOVE_KEY_ERROR", Nil, 1, 1)
              ELSE Res(sv.disk, "", Export(r.h, r.val), 1, 1)

\* ListKeys reporting a target that is not an object as a key that was not found
ListKeysNotFound(file, hasPath, keyPath) ==
    LET ld == LoadJSON(file) IN
    IF ld.err # "" THEN Res(file, ld.err, Nil, 1, 0)
    ELSE LET g == GetAllKeysAtPath(ld.h, hasPath, keyPath) IN
         IF g.err = "NOT_OBJECT" THEN Res(file, "KEY_NOT_FOUND", Nil, 1, 0)
         ELSE IF g.err # "" THEN Res(file, g.err, Nil, 1, 0)
         ELSE [Res(file, "", Nil, 1, 0) EXCEPT !.keys = g.keys]

ListKeys(file, hasPath, keyPath) ==
    LET ld == LoadJSON(file) IN
    IF ld.err # "" THEN Res(file, ld.err, Nil, 1, 0)
    ELSE LET g == GetAllKeysAtPath(ld.h, hasPath, keyPath) IN
         IF g.err # "" THEN Res(file, g.err, Nil, 1, 0)
         ELSE [Res(file, "", Nil, 1, 0) EXCEPT !.keys = g.keys]

\* KeyExists rejecting a path that ValidatePath rejects
KeyExistsOpValidating(file, keyPath) ==
    LET ld == LoadJSON(file) IN
    IF ld.err # "" THEN Res(file, ld.err, Nil, 1, 0)
    ELSE IF ValidatePath(keyPath) # "" THEN Res(file, "INVALID_PATH", Nil, 1, 0)
    ELSE [Res(file, "", Nil, 1, 0) EXCEPT !.exists = KeyExists(ld.h, keyPath)]

KeyExistsOp(file, keyPath) ==
    LET ld == LoadJSON(file) IN
    IF ld.err # "" THEN Res(file, ld.err, Nil, 1, 0)
    ELSE [Res(file, "", Nil, 1, 0) EXCEPT !.exists = KeyExists(ld.h, keyPath)]

\* the step of ValidateJSONSyntax at which the file system fails: os.Stat with an
\* error other than "does not exist", os.ReadFile
ValidateFailures == {"none", "stat", "read"}

ValidateJSONSyntax(file, fail) ==
    IF fail # "stat" /\ file = Missing
    THEN [NoResult EXCEPT !.errorType = "FILE_NOT_FOUND", !.hasError = TRUE]
    \* os.Stat returned a nil FileInfo with the error: fileInfo.Size() panics
    ELSE IF fail = "stat" THEN [NoResult EXCEPT !.panic = TRUE]
    ELSE IF file = Empty THEN [NoResult EXCEPT !.errorType = "PARSE_ERROR", !.hasError = TRUE]
    ELSE IF fail = "read" THEN [NoResult EXCEPT !.errorType = "FILE_READ_ERROR", !.hasError = TRUE]
    ELSE IF file = Malformed THEN [NoResult EXCEPT !.errorType = "PARSE_ERROR", !.hasError = TRUE]
    ELSE [NoResult EXCEPT !.valid = TRUE, !.hasPerf = TRUE]

ValidateJSON(file, fail) ==
    LET result == ValidateJSONSyntax(file, fail)
    IN  IF result.panic THEN Res(file, "PANIC", Nil, 0, 0)
        ELSE [Res(file, "", Nil, 0, 0) EXCEPT !.result = result]

(***************************************************************************)
(* One call of an operation on a file                                      *)
(***************************************************************************)
Procs == {1, 2}
NoCall ==
    [op |-> "none", path |-> EmptyString, path2 |-> EmptyString, value |-> Nil,
     hasPath |-> FALSE, fail |-> "none"]
NoRet == Res(Missing, "", Nil, 0, 0)
\* a handler as NewJSONHandler returns it: no cached data, the zero time
NewHandler == [cachedData |-> NoHeap, fileMTime |-> 0]
\* the call of LoadJSON or SaveJSON in progress or last returned: its arguments, the
\* injected failure, currentMTime, the returned error and data; read says that the
\* call read the content of the file, stale that the file had been written from
\* outside since the cache was last filled when the call looked at it, shared that
\* data, the map the caller holds, and the handler's cachedData are one Go map
NoFrame ==
    [op |-> "none", useCache |-> FALSE, data |-> NoHeap, fail |-> "none", currentMTime |-> 0,
     err |-> "", read |-> FALSE, stale |-> FALSE, shared |-> FALSE]
\* the directory: modification time of the file, the temporary file and its time,
\* and the clock that stamps the writes
NoFiles == [mtime |-> 0, clock |-> 0, tmp |-> Missing, tmpMTime |-> 0]
\* what has happened around the handler: the content when the last SaveJSON began,
\* an outside change since it began, an outside write since the handler last
\* read or renamed the file, and the data of the last SaveJSON that succeeded with
\* no outside change, no ClearCache and no edit by the caller since it began, and
\* whether there has been any outside change at all
NoHist ==
    [old |-> Missing, extInSave |-> FALSE, stale |-> FALSE, saved |-> FALSE, savedData |-> NoHeap,
     ext |-> FALSE]
HandlerOff ==
    /\ hpc = "off"
    /\ handler = NewHandler
    /\ fs = NoFiles
    /\ frame = NoFrame
    /\ hist = NoHist

ConcOff ==
    /\ cpc = [p \in Procs |-> "off"]
    /\ cdata = [p \in Procs |-> Nil]
    /\ mutex = [p \in Procs |-> 0]

Init ==
    /\ disk \in ObjectDocs \cup ArrayDocs \cup OtherFiles
    /\ disk0 = disk
    /\ pc = "idle"
    /\ call = NoCall
    /\ ret = NoRet
    /\ ConcOff
    /\ HandlerOff

Returns(c, r) ==
    /\ pc' = "done"
    /\ call' = c
    /\ ret' = r
    /\ disk' = r.disk
    /\ UNCHANGED <<disk0, cpc, cdata, mutex, hpc, handler, fs, frame, hist>>

CallGetKey ==
    /\ pc = "idle"
    /\ \E p \in Paths :
         Returns([NoCall EXCEPT !.op = "GetKey", !.path = p], GetKey(disk, p))

CallAddKey ==
    /\ pc = "idle"
    /\ \E p \in Paths, v \in ArgVals, fail \in SaveFailures :
         Returns([NoCall EXCEPT !.op = "AddKey", !.path = p, !.value = v, !.fail = fail], AddKey(disk, p, v, fail))

CallUpdateKey ==
    /\ pc = "idle"
    /\ \E p \in Paths, v \in ArgVals, fail \in SaveFailures :
         Returns([NoCall EXCEPT !.op = "UpdateKey", !.path = p, !.value = v, !.fail = fail], UpdateKey(disk, p, v, fail))

CallRenameKey ==
    /\ pc = "idle"
    /\ \E p \in Paths, q \in Paths, fail \in SaveFailures :
         Returns([NoCall EXCEPT !.op = "RenameKey", !.path = p, !.path2 = q, !.fail = fail], RenameKey(disk, p, q, fail))

CallRemoveKey ==
    /\ pc = "idle"
    /\ \E p \in Paths, fail \in SaveFailures :
         Returns([NoCall EXCEPT !.op = "RemoveKey", !.path = p, !.fail = fail], RemoveKey(disk, p, fail))

CallListKeys ==
    /\ pc = "idle"
    /\ \E p \in Paths, hp \in BOOLEAN :
         Returns([NoCall EXCEPT !.op = "ListKeys", !.path = IF hp THEN p ELSE EmptyString, !.hasPath = hp],
                ListKeys(disk, hp, p))

CallKeyExists ==
    /\ pc = "idle"
    /\ \E p \in Paths :
         Returns([NoCall EXCEPT !.op = "KeyExists", !.path = p], KeyExistsOp(disk, p))

CallValidateJSON ==
    /\ pc = "idle"
    /\ \E fail \in ValidateFailures :
         Returns([NoCall EXCEPT !.op = "ValidateJSON", !.fail = fail], ValidateJSON(disk, fail))

Next ==
    \/ CallGetKey
    \/ CallAddKey
    \/ CallUpdateKey
    \/ CallRenameKey
    \/ CallRemoveKey
    \/ CallListKeys
    \/ CallKeyExists
    \/ CallValidateJSON

Spec == Init /\ [][Next]_vars

(***************************************************************************)
(* Properties of one call                                                  *)
(***************************************************************************)
Done(op) == pc = "done" /\ call.op = op
Succeeded(op) == Done(op) /\ ret.err = ""
HasDot(keyPath) == \E i \in 1..Len(keyPath) : keyPath[i] = Dot

\* C1: when KeyExists(p) holds and the file system does not fail, UpdateKey(p, v)
\* succeeds and an immediately following GetKey(p) returns v.
C1_UpdateThenGet ==
    (Done("UpdateKey") /\ call.fail = "none" /\ KeyExistsOp(disk0, call.path).exists)
        => /\ ret.err = ""
           /\ GetKey(disk, call.path).err = ""
           /\ GetKey(disk, call.path).val = call.value

\* the outcome of value = GetKey(old); RemoveKey(old); AddKey(new, value) on file
GetRemoveAdd(file, oldPath, newPath) ==
    LET g == GetKey(file, oldPath)
        r == RemoveKey(file, oldPath, "none")
        a == AddKey(r.disk, newPath, g.val, "none")
    IN  IF g.err # "" THEN [ok |-> FALSE, disk |-> file]
        ELSE IF r.err # "" THEN [ok |-> FALSE, disk |-> r.disk]
        ELSE [ok |-> a.err = "", disk |-> a.disk]

\* C2: a successful RenameKey(old, new) leaves the document that GetKey(old),
\* RemoveKey(old), AddKey(new, value) leaves, and RenameKey succeeds whenever
\* that sequence does.
C2_RenameAsGetRemoveAdd ==
    (Done("RenameKey") /\ call.fail = "none" /\ call.path # call.path2)
        => LET seq == GetRemoveAdd(disk0, call.path, call.path2)
           IN  /\ ret.err = "" => disk = seq.disk
               /\ seq.ok => ret.err = ""

\* C3: after a successful RenameKey(old, new), KeyExists(old) is false and
\* GetKey(new) returns what GetKey(old) returned before.
C3_RenameMovesValue ==
    Succeeded("RenameKey")
        => /\ ~KeyExistsOp(disk, call.path).exists
           /\ GetKey(disk, call.path2).err = ""
           /\ GetKey(disk, call.path2).val = GetKey(disk0, call.path).val

\* C4: after a successful RemoveKey(p), KeyExists(p) returns false.
C4_RemoveThenNotExists ==
    Succeeded("RemoveKey") => ~KeyExistsOp(disk, call.path).exists

\* C5: the value returned by a successful RemoveKey(p) is the value GetKey(p)
\* returned immediately before.
C5_RemoveReturnsGetValue ==
    Succeeded("RemoveKey") => ret.val = GetKey(disk0, call.path).val

\* C6: if AddKey(p, v) succeeds on a path that did not exist, an immediately
\* following GetKey(p) returns exactly v, for every kind of value.
C6_AddThenGet ==
    (Succeeded("AddKey") /\ ~KeyExistsOp(disk0, call.path).exists)
        => /\ GetKey(disk, call.path).err = ""
           /\ GetKey(disk, call.path).val = call.value

C6_Witness ==
    /\ Succeeded("AddKey")
    /\ call.value.t = "obj"
    /\ Len(SplitPath(call.path)) = 3
    /\ kAB \in DOMAIN disk0.v
    /\ GetKey(disk, call.path).val = call.value

RECURSIVE TreeWalk(_, _, _)
\* split navigation on a JSON document: the value reached through keys[i..]
TreeWalk(val, keys, i) ==
    IF i > Len(keys) THEN [ok |-> TRUE, val |-> val]
    ELSE IF val.t # "obj" THEN [ok |-> FALSE, val |-> Nil]
    ELSE IF keys[i] \notin DOMAIN val.v THEN [ok |-> FALSE, val |-> Nil]
    ELSE TreeWalk(val.v[keys[i]], keys, i + 1)

IsRootLiteral(doc, keyPath) == doc.t = "obj" /\ keyPath # EmptyString /\ keyPath \in DOMAIN doc.v
BySplit(doc, keyPath) == doc.t = "obj" /\ keyPath # EmptyString /\ TreeWalk(doc, SplitPath(keyPath), 1).ok

\* C7: AddKey on a path that exists, as a root literal key or by split
\* navigation, fails with KEY_EXISTS, calls no SaveJSON and leaves the file as it was.
C7_AddExistingFails ==
    (Done("AddKey") /\ (IsRootLiteral(disk0, call.path) \/ BySplit(disk0, call.path)))
        => /\ ret.err = "KEY_EXISTS"
           /\ ret.saves = 0
           /\ disk = disk0

C7_Witness ==
    /\ Done("AddKey")
    /\ IsRootLiteral(disk0, call.path)
    /\ ~BySplit(disk0, call.path)
    /\ HasDot(call.path)
    /\ ret.err = "KEY_EXISTS"

\* C8: when the root object has a key k containing dots, GetKey(k) returns the
\* value stored under the root key k, also when splitting k resolves elsewhere.
C8_LiteralKeyFirst ==
    (Done("GetKey") /\ IsRootLiteral(disk0, call.path) /\ HasDot(call.path))
        => /\ ret.err = ""
           /\ ret.val = disk0.v[call.path]

C8_Witness ==
    /\ Done("GetKey")
    /\ IsRootLiteral(disk0, call.path)
    /\ HasDot(call.path)
    /\ BySplit(disk0, call.path)
    /\ TreeWalk(disk0, SplitPath(call.path), 1).val # disk0.v[call.path]
    /\ ret.val = disk0.v[call.path]

Mutating == {"AddKey", "UpdateKey", "RenameKey", "RemoveKey"}

\* the document a mutating call holds in memory once all its edits are made
EditedDocument(file, c) ==
    LET h == LoadJSON(file).h
        data == [h EXCEPT !.o = MapsOf(c.value, ArgBase) @@ @]
    IN  CASE c.op = "AddKey" ->
                Encode(SetValueAtPath(data, c.path, CellOf(c.value, ArgBase), TRUE).h)
          [] c.op = "UpdateKey" ->
                Encode(SetValueAtPath(data, c.path, CellOf(c.value, ArgBase), FALSE).h)
          [] c.op = "RenameKey" ->
                Encode(RemoveKeyAtPath(
                    SetValueAtPath(h, c.path2, NavigateToKey(h, c.path).val, TRUE).h, c.path).h)
          [] c.op = "RemoveKey" ->
                Encode(RemoveKeyAtPath(h, c.path).h)

\* C10: a mutating call either succeeds and the file holds the completely
\* edited document, or it fails and the file is what it was before the call.
C10_AllOrNothing ==
    (pc = "done" /\ call.op \in Mutating)
        => IF ret.err = ""
           THEN ret.saves = 1 /\ disk = EditedDocument(disk0, call)
           ELSE disk = disk0

\* RenameKey whose SaveJSON failed after both in-memory edits were made
C10_Witness ==
    /\ Done("RenameKey")
    /\ ret.saves = 1
    /\ ret.err = "RENAME_KEY_ERROR"
    /\ call.fail = "close"
    /\ EditedDocument(disk0, call) # disk0
    /\ disk = disk0

\* the value that get, exists and list resolve keyPath to in the document doc:
\* the root key named by the whole path, else the value reached by split navigation
Resolve(doc, keyPath) ==
    IF doc.t # "obj" \/ keyPath = EmptyString THEN [ok |-> FALSE, val |-> Nil]
    ELSE IF keyPath \in DOMAIN doc.v THEN [ok |-> TRUE, val |-> doc.v[keyPath]]
    ELSE TreeWalk(doc, SplitPath(keyPath), 1)

\* the prefixes of keyPath, shorter than keyPath, that split navigation on doc
\* resolves to a value that is not an object
NonObjectPrefixes(doc, keyPath) ==
    LET keys == SplitPath(keyPath)
    IN  { Join(SubSeq(keys, 1, i)) : i \in { j \in 1..(Len(keys) - 1) :
              LET w == TreeWalk(doc, SubSeq(keys, 1, j), 1) IN w.ok /\ w.val.t # "obj" } }

\* C14: RenameKey(file, p, p) fails with SAME_KEY for every path p and every state
\* of the file, with no LoadJSON, no SaveJSON and the file left as it was.
C14_SameKey ==
    (Done("RenameKey") /\ call.path = call.path2)
        => /\ ret.err = "SAME_KEY"
           /\ ret.loads = 0
           /\ ret.saves = 0
           /\ disk = disk0

C14_Witness ==
    /\ Done("RenameKey")
    /\ call.path = call.path2
    /\ call.path = kAB
    /\ disk0 = Missing

\* C15, as stated: on a file that loads, KeyExists returns a boolean and no error
\* for a non-empty path and fails with INVALID_PATH for the empty path.
C15_EmptyPathInvalid ==
    (Done("KeyExists") /\ LoadJSON(disk0).err = "")
        => IF call.path = EmptyString THEN ret.err = "INVALID_PATH" ELSE ret.err = ""

\* C15, amended: on a file that loads, KeyExists returns a boolean and no error for
\* every path; for the empty path the boolean is false, and the boolean is true
\* exactly when the path resolves (root literal key first, then split navigation).
C15_KeyExistsNeverFails ==
    (Done("KeyExists") /\ LoadJSON(disk0).err = "")
        => /\ ret.err = ""
           /\ ret.exists = Resolve(disk0, call.path).ok
           /\ (call.path = EmptyString => ~ret.exists)
           /\ disk = disk0

C15_Witness ==
    /\ Done("KeyExists")
    /\ disk0 \in ObjectDocs
    /\ DOMAIN disk0.v # {}
    /\ call.path = EmptyString
    /\ ret.err = ""

\* C16, as stated: GetKey on a path whose split navigation reaches a value that is
\* not an object before the last segment fails with KEY_NOT_FOUND, reported
\* against the whole path.
C16_NonObjectIsKeyNotFound ==
    (Done("GetKey") /\ disk0.t = "obj" /\ ~Resolve(disk0, call.path).ok
                    /\ NonObjectPrefixes(disk0, call.path) # {})
        => /\ ret.err = "KEY_NOT_FOUND"
           /\ ret.at = call.path

\* C16, amended: such a GetKey fails with PATH_ERROR, a kind of its own, and the
\* message names the prefix that holds the value that is not an object; an absent
\* segment key fails with KEY_NOT_FOUND against the whole path.
C16_NonObjectIsPathError ==
    (Done("GetKey") /\ disk0.t = "obj" /\ call.path # EmptyString /\ ~Resolve(disk0, call.path).ok)
        => IF NonObjectPrefixes(disk0, call.path) # {}
           THEN /\ ret.err = "PATH_ERROR"
                /\ ret.at \in NonObjectPrefixes(disk0, call.path)
                /\ ret.at # call.path
           ELSE /\ ret.err = "KEY_NOT_FOUND"
                /\ ret.at = call.path

C16_Witness ==
    /\ Done("GetKey")
    /\ disk0.t = "obj"
    /\ kAB \notin DOMAIN disk0.v
    /\ kA \in DOMAIN disk0.v
    /\ disk0.v[kA].t = "num"
    /\ call.path = kAB
    /\ ret.err = "PATH_ERROR"
    /\ ret.at = kA

\* the JSON roots that are not objects
NonObjectRoots == { f \in OtherFiles : f.t \in {"arr", "str", "num", "bool", "null"} }

\* C17: every operation that loads a file whose JSON root is not an object (array,
\* string, number, boolean, null) fails with the error of the load, INVALID_JSON.
C17_NonObjectRootFailsAtLoad ==
    (pc = "done" /\ ret.loads = 1 /\ disk0 \in NonObjectRoots) => ret.err = "INVALID_JSON"

\* C18: ListKeys on a path that resolves to an object returns exactly the keys of
\* that object, and with no path exactly the keys of the root object.
C18_ListKeysExact ==
    (Done("ListKeys") /\ disk0.t = "obj")
        => LET target == IF call.hasPath THEN Resolve(disk0, call.path)
                         ELSE [ok |-> TRUE, val |-> disk0]
           IN  (target.ok /\ target.val.t = "obj")
                   => /\ ret.err = ""
                      /\ ret.keys = DOMAIN target.val.v
                      /\ disk = disk0

C18_Witness ==
    /\ Done("ListKeys")
    /\ call.hasPath
    /\ disk0.t = "obj"
    /\ call.path = kAB
    /\ kAB \in DOMAIN disk0.v
    /\ kA \in DOMAIN disk0.v
    /\ disk0.v[kAB].t = "obj"
    /\ ret.keys = {kB}

\* C19: ListKeys on a path that resolves to a scalar or to an array fails with
\* NOT_OBJECT; a path with an absent segment key fails with KEY_NOT_FOUND.
C19_ListKeysNotObject ==
    (Done("ListKeys") /\ call.hasPath /\ disk0.t = "obj" /\ call.path # EmptyString)
        => LET target == Resolve(disk0, call.path)
           IN  /\ (target.ok /\ target.val.t # "obj") => ret.err = "NOT_OBJECT"
               /\ (~target.ok /\ NonObjectPrefixes(disk0, call.path) = {})
                      => ret.err = "KEY_NOT_FOUND"

C19_Witness ==
    /\ Done("ListKeys")
    /\ call.hasPath
    /\ Resolve(disk0, call.path).ok
    /\ Resolve(disk0, call.path).val.t = "arr"
    /\ Len(SplitPath(call.path)) = 2
    /\ ret.err = "NOT_OBJECT"

\* C20, as stated: AddKey on a path with an intermediate segment that resolves to
\* a value that is not an object fails with PATH_CONFLICT and leaves the file as it was.
C20_PathConflict ==
    (Done("AddKey") /\ disk0.t = "obj" /\ NonObjectPrefixes(disk0, call.path) # {})
        => /\ ret.err = "PATH_CONFLICT"
           /\ disk = disk0

\* C20, amended: such an AddKey fails with PATH_CONFLICT unless the whole path is
\* a key of the root object, in which case it fails with KEY_EXISTS; in both cases
\* nothing is saved and the file, with the value that is not an object, is as it was.
C20_PathConflictOrKeyExists ==
    (Done("AddKey") /\ disk0.t = "obj" /\ NonObjectPrefixes(disk0, call.path) # {})
        => /\ ret.err = IF call.path \in DOMAIN disk0.v THEN "KEY_EXISTS" ELSE "PATH_CONFLICT"
           /\ ret.saves = 0
           /\ disk = disk0

C20_Witness ==
    /\ Done("AddKey")
    /\ disk0.t = "obj"
    /\ kA \in DOMAIN disk0.v
    /\ disk0.v[kA].t = "num"
    /\ call.path = <<"a", ".", "b", ".", "a">>
    /\ call.fail = "none"
    /\ ret.err = "PATH_CONFLICT"


RECURSIVE DelAt(_, _, _)
\* the JSON document val without the entry k of the object at location loc
DelAt(val, loc, k) ==
    IF loc = << >> THEN Obj(MapDel(val.v, k))
    ELSE Obj([x \in DOMAIN val.v |->
                 IF x = Head(loc) THEN DelAt(val.v[x], Tail(loc), k) ELSE val.v[x]])

C23_RemovePrunesEmptyParent ==
    Succeeded("RemoveKey")
        => \A loc \in ObjLocs(disk) \cap ObjLocs(disk0) :
              (loc # << >> /\ DOMAIN ValAt(disk0, loc).v # {}) => DOMAIN ValAt(disk, loc).v # {}

\* C24: a call whose path is not the root key a.b leaves the value of the root key
\* a.b as it was (UpdateKey, RemoveKey, RenameKey) and returns what it returns on
\* the document without that key (GetKey).
C24_LiteralOnlyWholePath ==
    (pc = "done" /\ disk0.t = "obj" /\ kAB \in DOMAIN disk0.v
                 /\ call.path # kAB /\ call.path2 # kAB)
        => /\ call.op \in {"UpdateKey", "RemoveKey", "RenameKey"}
              => /\ disk.t = "obj"
                 /\ kAB \in DOMAIN disk.v
                 /\ disk.v[kAB] = disk0.v[kAB]
           /\ call.op = "GetKey"
              => LET without == GetKey(Obj(MapDel(disk0.v, kAB)), call.path)
                 IN  ret.err = without.err /\ ret.val = without.val

\* C27: on a file that loads and for a path that is not empty, KeyExists returns
\* true exactly when GetKey on the same file and path succeeds.
C27_ExistsIffGet ==
    (Done("KeyExists") /\ LoadJSON(disk0).err = "" /\ call.path # EmptyString)
        => /\ ret.err = ""
           /\ ret.exists = (GetKey(disk0, call.path).err = "")

C27_Witness ==
    /\ Done("KeyExists")
    /\ call.path = kAB
    /\ disk0.t = "obj"
    /\ DOMAIN disk0.v = {kA, kAB}
    /\ disk0.v[kA].t = "num"
    /\ ret.exists
    /\ GetKey(disk0, call.path).err = ""

\* the paths of the objects that the split navigation of keyPath goes through
Ancestors(keyPath) ==
    LET keys == SplitPath(keyPath)
    IN  { Join(SubSeq(keys, 1, i)) : i \in 1..(Len(keys) - 1) }

\* C28: after a successful AddKey(p, v) every path that GetKey resolved before the
\* call, other than p and the ancestors of p, resolves to the value it had.
C28_AddKeyFrame ==
    Succeeded("AddKey")
        => \A q \in Paths \ ({EmptyString, call.path} \cup Ancestors(call.path)) :
              GetKey(disk0, q).err = ""
                  => /\ GetKey(disk, q).err = ""
                     /\ GetKey(disk, q).val = GetKey(disk0, q).val

C28_Witness ==
    /\ Succeeded("AddKey")
    /\ call.path = <<"a", ".", "b", ".", "a">>
    /\ GetKey(disk0, <<"a", ".", "b", ".", "b">>).err = ""
    /\ GetKey(disk, <<"a", ".", "b", ".", "b">>).val = GetKey(disk0, <<"a", ".", "b", ".", "b">>).val
    /\ GetKey(disk, call.path).val = call.value

\* C30: when CreateNestedPath fails on the loaded document, with INVALID_PATH or
\* PATH_CONFLICT, the document it leaves in memory is the one it was given.
C30_CreateNestedPathAllOrNothing ==
    (Done("AddKey") /\ LoadJSON(disk0).err = "")
        => LET data == LoadJSON(disk0).h
               created == CreateNestedPath(data, call.path)
           IN  created.err # "" => created.h = data

C30_Witness ==
    /\ Done("AddKey")
    /\ call.path = kAB
    /\ ret.err = "PATH_CONFLICT"
    /\ CreateNestedPath(LoadJSON(disk0).h, call.path).err = "PATH_CONFLICT"
    /\ disk0.v[kA].t = "arr"

\* C21: ValidateJSON returns no error as an operation whatever the file and the
\* file system do: Valid holds exactly when Error is absent, and the performance
\* metrics are present exactly when Valid holds.
C21_ValidateNeverFails ==
    Done("ValidateJSON")
        => /\ ret.err = ""
           /\ ret.result.valid = ~ret.result.hasError
           /\ ret.result.hasPerf = ret.result.valid

\* the operations that load the document
Loading == {"GetKey", "AddKey", "UpdateKey", "RenameKey", "RemoveKey", "ListKeys", "KeyExists"}

\* C29: on a file that ValidateJSON reports as valid, no operation fails with
\* INVALID_JSON and none panics.
C29_ValidThenLoadable ==
    (pc = "done" /\ call.op \in Loading /\ ValidateJSON(disk0, "none").result.valid)
        => ret.err \notin {"INVALID_JSON", "PANIC"}

(***************************************************************************)
(* One JSONHandler used for a sequence of LoadJSON, SaveJSON and           *)
(* ClearCache calls, step by step, while another process writes or removes *)
(* the file.  The handler's mutex serialises its own calls; the other      *)
(* process does not take it.                                               *)
(***************************************************************************)
HandlerDocs == {Obj(EmptyMap), Obj([k \in {kA} |-> Num(1)])}
\* the data handed to SaveJSON: the maps of the documents and the nil map
SaveData == { LoadJSON(f).h : f \in HandlerDocs } \cup {NoHeap}
\* what the other process writes
ExtFiles == {Obj([k \in {kA} |-> Num(2)]), Obj(EmptyMap), Null, Malformed}

\* useCache && h.cachedData != nil && h.fileMTime.Equal(currentMTime)
UseCached(useCache, hd, currentMTime) ==
    useCache /\ ~hd.cachedData.nil /\ hd.fileMTime = currentMTime

\* the cache update of SaveJSON that leaves the recorded time as it was
CachedDataOnly(hd, data, statOk, mtime) == [hd EXCEPT !.cachedData = data]

\* the cache update of SaveJSON: the data, and the time when os.Stat succeeds
Cached(hd, data, statOk, mtime) ==
    [cachedData |-> data, fileMTime |-> IF statOk THEN mtime ELSE hd.fileMTime]

\* the deferred function of SaveJSON without os.Remove
DeferredCloseOnly(tmp) == tmp

\* the deferred function of SaveJSON: tempFile.Close(); os.Remove(tempPath)
Deferred(tmp) == Missing

InitHandler ==
    /\ disk \in HandlerDocs \cup {Missing, Null}
    /\ disk0 = disk
    /\ pc = "handler"
    /\ call = NoCall
    /\ ret = NoRet
    /\ ConcOff
    /\ hpc = "idle"
    /\ handler = NewHandler
    /\ fs = [NoFiles EXCEPT !.mtime = IF disk = Missing THEN 0 ELSE 1, !.clock = 1]
    /\ frame = NoFrame
    /\ hist = NoHist

Other0 == <<disk0, pc, call, ret, cpc, cdata, mutex>>

\* LoadJSON: Lock, os.Stat, and the return of the cached data
LoadStat ==
    /\ hpc = "idle"
    /\ \E useCache \in BOOLEAN :
         LET f0 == [NoFrame EXCEPT !.op = "LoadJSON", !.useCache = useCache, !.stale = hist.stale]
         IN  IF disk = Missing
             THEN /\ frame' = [f0 EXCEPT !.err = "FILE_NOT_FOUND"]
                  /\ hpc' = "idle"
             ELSE IF UseCached(useCache, handler, fs.mtime)
             THEN /\ frame' = [f0 EXCEPT !.currentMTime = fs.mtime, !.data = handler.cachedData,
                                          !.shared = TRUE]
                  /\ hpc' = "idle"
             ELSE /\ frame' = [f0 EXCEPT !.currentMTime = fs.mtime]
                  /\ hpc' = "load_read"
    /\ UNCHANGED <<disk, handler, fs, hist, Other0>>

\* LoadJSON: os.ReadFile, json.Unmarshal, the cache update, return
LoadRead ==
    /\ hpc = "load_read"
    /\ LET ld == LoadJSON(disk)
       IN  IF disk = Missing
           THEN /\ frame' = [frame EXCEPT !.err = "FILE_READ_ERROR"]
                /\ UNCHANGED <<handler, hist>>
           ELSE IF ld.err # ""
           THEN /\ frame' = [frame EXCEPT !.err = ld.err, !.read = TRUE]
                /\ UNCHANGED <<handler, hist>>
           ELSE /\ frame' = [frame EXCEPT !.data = ld.h, !.read = TRUE, !.shared = frame.useCache]
                /\ IF frame.useCache
                   THEN /\ handler' = [cachedData |-> ld.h, fileMTime |-> frame.currentMTime]
                        /\ hist' = [hist EXCEPT !.stale = FALSE]
                   ELSE UNCHANGED <<handler, hist>>
    /\ hpc' = "idle"
    /\ UNCHANGED <<disk, fs, Other0>>

\* the return of SaveJSON with an error, after the deferred function
SaveFails ==
    /\ frame' = [frame EXCEPT !.err = "FILE_WRITE_ERROR"]
    /\ fs' = [fs EXCEPT !.tmp = Deferred(fs.tmp), !.tmpMTime = 0]
    /\ hpc' = "idle"
    /\ UNCHANGED <<disk, handler, hist, Other0>>

\* SaveJSON: Lock, os.CreateTemp
SaveCreate ==
    /\ hpc = "idle"
    /\ fs.clock < MaxClock
    /\ \E data \in SaveData \cup {frame.data}, fail \in SaveFailures :
         \* the caller saves new data or the map it holds
         LET f0 == [NoFrame EXCEPT !.op = "SaveJSON", !.data = data, !.fail = fail,
                                   !.shared = (data = frame.data /\ frame.shared)]
         IN  IF fail = "create"
             THEN /\ frame' = [f0 EXCEPT !.err = "FILE_WRITE_ERROR"]
                  /\ hpc' = "idle"
                  /\ fs' = fs
             ELSE /\ frame' = f0
                  /\ hpc' = "save_encode"
                  /\ fs' = [fs EXCEPT !.tmp = Malformed]
    /\ hist' = [hist EXCEPT !.old = disk, !.extInSave = FALSE, !.saved = FALSE]
    /\ UNCHANGED <<disk, handler, Other0>>

\* SaveJSON: encoder.Encode(data) into the temporary file
SaveEncode ==
    /\ hpc = "save_encode"
    /\ IF frame.fail = "encode" \/ Encode(frame.data) = Cycle
       THEN SaveFails
       ELSE /\ fs' = [fs EXCEPT !.tmp = Encode(frame.data), !.tmpMTime = fs.clock + 1,
                                !.clock = fs.clock + 1]
            /\ hpc' = "save_close"
            /\ UNCHANGED <<disk, handler, frame, hist, Other0>>

\* SaveJSON: tempFile.Close()
SaveClose ==
    /\ hpc = "save_close"
    /\ IF frame.fail = "close"
       THEN SaveFails
       ELSE /\ hpc' = "save_rename"
            /\ UNCHANGED <<disk, handler, fs, frame, hist, Other0>>

\* SaveJSON: os.Rename(tempPath, h.filePath)
SaveRename ==
    /\ hpc = "save_rename"
    /\ IF frame.fail = "rename"
       THEN SaveFails
       ELSE /\ disk' = fs.tmp
            /\ fs' = [fs EXCEPT !.mtime = fs.tmpMTime, !.tmp = Missing, !.tmpMTime = 0]
            /\ hist' = [hist EXCEPT !.stale = FALSE]
            /\ hpc' = "save_stat"
            /\ UNCHANGED <<handler, frame, Other0>>

\* SaveJSON: the cache update with os.Stat, the deferred function, return
SaveStat ==
    /\ hpc = "save_stat"
    /\ handler' = Cached(handler, frame.data, disk # Missing, fs.mtime)
    /\ fs' = [fs EXCEPT !.tmp = Deferred(fs.tmp)]
    /\ hist' = [hist EXCEPT !.saved = ~hist.extInSave, !.savedData = frame.data]
    /\ frame' = [frame EXCEPT !.shared = TRUE]
    /\ hpc' = "idle"
    /\ UNCHANGED <<disk, Other0>>

ClearCache ==
    /\ hpc = "idle"
    /\ handler' = NewHandler
    /\ frame' = [NoFrame EXCEPT !.op = "ClearCache"]
    /\ hist' = [hist EXCEPT !.saved = FALSE]
    /\ UNCHANGED <<disk, fs, hpc, Other0>>

\* the caller edits the map that LoadJSON returned or that it gave to SaveJSON, as
\* AddKey does with SetValueAtPath; the handler's cachedData may be the same map
CallerEdit ==
    /\ hpc = "idle"
    /\ frame.op \in {"LoadJSON", "SaveJSON", "Edit"}
    /\ ~frame.data.nil
    /\ LET s == SetValueAtPath(frame.data, kB, Num(1), TRUE)
       IN  /\ frame' = [NoFrame EXCEPT !.op = "Edit", !.data = s.h, !.shared = frame.shared]
           /\ handler' = IF frame.shared THEN [handler EXCEPT !.cachedData = s.h] ELSE handler
    /\ hist' = [hist EXCEPT !.saved = FALSE]
    /\ UNCHANGED <<disk, fs, hpc, Other0>>

\* another process writes the file, as os.WriteFile in TestCacheInvalidation
ExternalWrite ==
    /\ fs.clock < MaxClock
    /\ \E f \in ExtFiles : disk' = f
    /\ fs' = [fs EXCEPT !.mtime = fs.clock + 1, !.clock = fs.clock + 1]
    /\ hist' = [hist EXCEPT !.extInSave = TRUE, !.stale = TRUE, !.saved = FALSE, !.ext = TRUE]
    /\ UNCHANGED <<hpc, handler, frame, Other0>>

\* another process removes the file
ExternalRemove ==
    /\ disk # Missing
    /\ disk' = Missing
    /\ fs' = [fs EXCEPT !.mtime = 0]
    /\ hist' = [hist EXCEPT !.extInSave = TRUE, !.saved = FALSE, !.ext = TRUE]
    /\ UNCHANGED <<hpc, handler, frame, Other0>>

NextHandler ==
    \/ LoadStat
    \/ LoadRead
    \/ SaveCreate
    \/ SaveEncode
    \/ SaveClose
    \/ SaveRename
    \/ SaveStat
    \/ ClearCache
    \/ CallerEdit
    \/ ExternalWrite
    \/ ExternalRemove

SpecHandler == InitHandler /\ [][NextHandler]_vars

Returned(op) == hpc = "idle" /\ frame.op = op

\* C11: while SaveJSON runs and after it returns, with no write by another process
\* in between, the file holds the whole previous content or the whole new content;
\* when SaveJSON fails (create, encode, close or rename) the file is as it was and
\* the temporary file is gone.
C11_AtomicSave ==
    ~hist.extInSave =>
        /\ hpc \in {"save_encode", "save_close", "save_rename"} => disk = hist.old
        /\ hpc = "save_stat" => disk = Encode(frame.data)
        /\ (Returned("SaveJSON") /\ frame.err # "") => (disk = hist.old /\ fs.tmp = Missing)
        /\ (Returned("SaveJSON") /\ frame.err = "") => (disk = Encode(frame.data) /\ fs.tmp = Missing)

C11_Witness ==
    /\ Returned("SaveJSON")
    /\ frame.fail = "rename"
    /\ frame.err = "FILE_WRITE_ERROR"
    /\ ~hist.extInSave
    /\ hist.old = Obj(EmptyMap)
    /\ Encode(frame.data) # hist.old
    /\ disk = hist.old

C13_ExternalChangeReread ==
    (Returned("LoadJSON") /\ frame.useCache /\ frame.err = "" /\ frame.stale) => frame.read

\* C26: with no change of the file by another process, a LoadJSON(useCache = true)
\* answered from the cache returns the document that the file holds.
C26_CacheEqualsDisk ==
    (Returned("LoadJSON") /\ frame.useCache /\ frame.err = "" /\ ~frame.read /\ ~hist.ext)
        => Encode(frame.data) = disk

(***************************************************************************)
(* Concurrent calls in one process.  Caller p runs GetKey or AddKey on the *)
(* same file path, step by step: NewJSONHandler, then LoadJSON (Lock, stat *)
(* and read, deferred Unlock), the in-memory edit, then SaveJSON (Lock,    *)
(* write and rename, deferred Unlock).  mutex[x] is the mutex field of     *)
(* handler x; NewJSONHandler returns a new handler at each call, named     *)
(* here by the caller that made it.                                        *)
(***************************************************************************)
ConcDocs == { d \in ObjectDocs : kA \notin DOMAIN d.v }
ConcOps == {"GetKey", "AddKey"}
ConcPath(p) == IF p = 1 THEN kA ELSE kB
ConcValue(p) == Num(6 + p)
NoData == [op |-> "none", handler |-> 0, h |-> NoHeap, err |-> ""]

InitConc ==
    /\ disk \in ConcDocs
    /\ disk0 = disk
    /\ pc = "conc"
    /\ call = NoCall
    /\ ret = NoRet
    /\ cpc = [p \in Procs |-> "new"]
    /\ cdata \in [Procs -> { [NoData EXCEPT !.op = o] : o \in ConcOps }]
    /\ mutex = [x \in Procs |-> 0]
    /\ HandlerOff

Seq0 == <<disk0, pc, call, ret, hpc, handler, fs, frame, hist>>

\* handler := jsonhandler.NewJSONHandler(filePath)
NewJSONHandler(p) ==
    /\ cpc[p] = "new"
    /\ cdata' = [cdata EXCEPT ![p].handler = p]
    /\ cpc' = [cpc EXCEPT ![p] = "load"]
    /\ UNCHANGED <<disk, mutex, Seq0>>

\* LoadJSON: h.mutex.Lock()
LockLoad(p) ==
    /\ cpc[p] = "load"
    /\ mutex[cdata[p].handler] = 0
    /\ mutex' = [mutex EXCEPT ![cdata[p].handler] = p]
    /\ cpc' = [cpc EXCEPT ![p] = "loading"]
    /\ UNCHANGED <<disk, cdata, Seq0>>

\* LoadJSON: os.Stat, os.ReadFile, json.Unmarshal
ReadFile(p) ==
    /\ cpc[p] = "loading"
    /\ cdata' = [cdata EXCEPT ![p].h = LoadJSON(disk).h, ![p].err = LoadJSON(disk).err]
    /\ cpc' = [cpc EXCEPT ![p] = "loaded"]
    /\ UNCHANGED <<disk, mutex, Seq0>>

\* LoadJSON: deferred h.mutex.Unlock()
UnlockLoad(p) ==
    /\ cpc[p] = "loaded"
    /\ mutex' = [mutex EXCEPT ![cdata[p].handler] = 0]
    /\ cpc' = [cpc EXCEPT ![p] = IF cdata[p].err # "" THEN "done" ELSE "edit"]
    /\ UNCHANGED <<disk, cdata, Seq0>>

\* GetKey: NavigateToKey; AddKey: KeyExists and SetValueAtPath on the loaded document
Edit(p) ==
    /\ cpc[p] = "edit"
    /\ IF cdata[p].op = "GetKey"
       THEN /\ cdata' = [cdata EXCEPT ![p].err = NavigateToKey(cdata[p].h, ConcPath(p)).err]
            /\ cpc' = [cpc EXCEPT ![p] = "done"]
       ELSE IF KeyExists(cdata[p].h, ConcPath(p))
       THEN /\ cdata' = [cdata EXCEPT ![p].err = "KEY_EXISTS"]
            /\ cpc' = [cpc EXCEPT ![p] = "done"]
       ELSE LET s == SetValueAtPath(cdata[p].h, ConcPath(p), ConcValue(p), TRUE)
            IN  /\ cdata' = [cdata EXCEPT ![p].h = s.h,
                                          ![p].err = IF s.err = "" THEN "" ELSE "ADD_KEY_ERROR"]
                /\ cpc' = [cpc EXCEPT ![p] = IF s.err = "" THEN "save" ELSE "done"]
    /\ UNCHANGED <<disk, mutex, Seq0>>

\* SaveJSON: h.mutex.Lock()
LockSave(p) ==
    /\ cpc[p] = "save"
    /\ mutex[cdata[p].handler] = 0
    /\ mutex' = [mutex EXCEPT ![cdata[p].handler] = p]
    /\ cpc' = [cpc EXCEPT ![p] = "saving"]
    /\ UNCHANGED <<disk, cdata, Seq0>>

\* SaveJSON: temporary file, encode, close, rename over the target
WriteFile(p) ==
    /\ cpc[p] = "saving"
    /\ \E fail \in SaveFailures :
         LET sv == SaveJSON(disk, cdata[p].h, fail)
         IN  /\ disk' = sv.disk
             /\ cdata' = [cdata EXCEPT ![p].err = IF sv.err = "" THEN "" ELSE "ADD_KEY_ERROR"]
    /\ cpc' = [cpc EXCEPT ![p] = "saved"]
    /\ UNCHANGED <<mutex, Seq0>>

\* SaveJSON: deferred h.mutex.Unlock()
UnlockSave(p) ==
    /\ cpc[p] = "saved"
    /\ mutex' = [mutex EXCEPT ![cdata[p].handler] = 0]
    /\ cpc' = [cpc EXCEPT ![p] = "done"]
    /\ UNCHANGED <<disk, cdata, Seq0>>

NextConc ==
    \E p \in Procs :
        \/ NewJSONHandler(p)
        \/ LockLoad(p)
        \/ ReadFile(p)
        \/ UnlockLoad(p)
        \/ Edit(p)
        \/ LockSave(p)
        \/ WriteFile(p)
        \/ UnlockSave(p)

SpecConc == InitConc /\ [][NextConc]_vars

\* a caller is inside the critical section of LoadJSON or SaveJSON
InCritical(p) == cpc[p] \in {"loading", "loaded", "saving", "saved"}

\* C9: the LoadJSON and SaveJSON critical sections of two concurrent calls on
\* the same file never overlap.
C9_MutualExclusion ==
    \A p \in Procs, q \in Procs : (p # q) => ~(InCritical(p) /\ InCritical(q))

\* C25: when the two concurrent AddKey calls, on the different root keys a and b,
\* have both returned without error, the file holds both keys with their values.
C25_NoLostUpdate ==
    (\A p \in Procs : cpc[p] = "done" /\ cdata[p].op = "AddKey" /\ cdata[p].err = "")
        => /\ disk.t = "obj"
           /\ \A p \in Procs : /\ ConcPath(p) \in DOMAIN disk.v
                                /\ disk.v[ConcPath(p)] = ConcValue(p)

====
